---------------------------- MODULE Spec2Model ----------------------------
(***************************************************************************)
(* A model of app.py: the keyword auto-responder (WhatsAppBot), its        *)
(* session map with duplicate suppression and periodic sweep, and the      *)
(* webhook adapter (handle_all, webhook, handle_webhook).                  *)
(*                                                                         *)
(* Text is modelled as a sequence of one-character strings, so that        *)
(* lower(), strip() and the substring test `word in message` are computed  *)
(* character by character.  Time is an integer number of clock ticks;      *)
(* TicksPerSecond ticks make one second, so that a datetime difference has *)
(* a fractional part which timedelta.seconds drops.                        *)
(***************************************************************************)
EXTENDS Integers, Sequences, FiniteSets, TLC

-----------------------------------------------------------------------------
(* Bounds of the model *)

\* clock resolution: ticks per second (datetime has microseconds)
TicksPerSecond == 2

\* how many times the clock is advanced in one behaviour
MaxAdvances == 2

\* how many requests the threaded server takes in one behaviour
MaxRequests == 3

-----------------------------------------------------------------------------
(* Program constants *)

\* timedelta.seconds is the seconds field of a (days, seconds, microseconds)
\* triple: it lies in 0 .. 86399
SecondsPerDay == 86400

\* app.py:43 `(now - self.last_cleanup).seconds > 300`
CleanupInterval == 300

\* app.py:46 `(now - last_time).seconds > 300`
SessionMaxAge == 300

\* app.py:69 `time_diff < 2`
DuplicateWindow == 2

-----------------------------------------------------------------------------
(* Text *)

UpperLetters ==
    <<"A", "B", "C", "D", "E", "F", "G", "H", "I", "J", "K", "L", "M",
      "N", "O", "P", "Q", "R", "S", "T", "U", "V", "W", "X", "Y", "Z">>

LowerLetters ==
    <<"a", "b", "c", "d", "e", "f", "g", "h", "i", "j", "k", "l", "m",
      "n", "o", "p", "q", "r", "s", "t", "u", "v", "w", "x", "y", "z">>

Whitespace == {" ", "\t"}

\* str.lower() on one character
LowerChar(c) ==
    IF \E i \in 1..Len(UpperLetters) : UpperLetters[i] = c
    THEN LowerLetters[CHOOSE i \in 1..Len(UpperLetters) : UpperLetters[i] = c]
    ELSE c

\* str.lower()
Lower(s) == [i \in 1..Len(s) |-> LowerChar(s[i])]

\* str.strip(): drop leading and trailing whitespace
Strip(s) ==
    LET keep == {i \in 1..Len(s) : s[i] \notin Whitespace}
    IN  IF keep = {} THEN <<>>
        ELSE LET lo == CHOOSE i \in keep : \A j \in keep : i <= j
                 hi == CHOOSE i \in keep : \A j \in keep : j <= i
             IN  SubSeq(s, lo, hi)

\* a slip of Normalize: strip() without lower()
NormalizeStripOnly(message) == Strip(message)

\* message.lower().strip()                                   (app.py:57)
Normalize(message) == Strip(Lower(message))

\* `word in message` for strings: word occurs as a substring
Contains(message, word) ==
    \E i \in 0..(Len(message) - Len(word)) :
        \A j \in 1..Len(word) : message[i + j] = word[j]

\* any(word in message for word in words)
AnyWordIn(message, words) ==
    \E k \in 1..Len(words) : Contains(message, words[k])

-----------------------------------------------------------------------------
(* Keyword lists, in the order of the if/elif chain (app.py:77-89) *)

MenuWords ==
    <<<<"m", "e", "n", "u">>,
      <<"1">>,
      <<"k", "h", "a", "n", "a">>,
      <<"r", "a", "t", "e">>,
      <<"p", "r", "i", "c", "e">>,
      <<"c", "h", "a", "r", "g", "e", "s">>>>

BookingWords ==
    <<<<"b", "o", "o", "k", "i", "n", "g">>,
      <<"a", "p", "p", "o", "i", "n", "t", "m", "e", "n", "t">>,
      <<"2">>,
      <<"o", "r", "d", "e", "r">>,
      <<"d", "e", "l", "i", "v", "e", "r", "y">>>>

ContactWords ==
    <<<<"c", "o", "n", "t", "a", "c", "t">>,
      <<"3">>,
      <<"n", "u", "m", "b", "e", "r">>,
      <<"p", "h", "o", "n", "e">>,
      <<"a", "d", "d", "r", "e", "s", "s">>>>

HoursWords ==
    <<<<"t", "i", "m", "e">>,
      <<"h", "o", "u", "r">>,
      <<"4">>,
      <<"b", "a", "j", "e">>,
      <<"o", "p", "e", "n">>,
      <<"c", "l", "o", "s", "e">>>>

GreetingWords ==
    <<<<"h", "e", "l", "l", "o">>,
      <<"h", "i">>,
      <<"h", "e", "y">>,
      <<"s", "a", "l", "a", "m">>,
      <<"a", "s", "s", "a", "l", "a", "m">>>>

ThanksWords ==
    <<<<"t", "h", "a", "n", "k", "s">>,
      <<"t", "h", "a", "n", "k">>,
      <<"s", "h", "u", "k", "r", "i", "y", "a">>>>

FarewellWords ==
    <<<<"b", "y", "e">>,
      <<"g", "o", "o", "d", "b", "y", "e">>,
      <<"a", "l", "l", "a", "h", " ", "h", "a", "f", "i", "z">>>>

-----------------------------------------------------------------------------
(* The canned replies.  Each is a fixed non-empty text; the model keeps    *)
(* one distinct name per text.                                             *)

get_welcome_message == "WELCOME_TEXT"

get_default_response == "DEFAULT_TEXT"

get_menu == "MENU_TEXT"

get_booking_info == "BOOKING_TEXT"

get_contact_info == "CONTACT_TEXT"

get_business_hours == "HOURS_TEXT"

ThanksReply == "THANKS_TEXT"

FarewellReply == "FAREWELL_TEXT"

\* Python's None, returned for a duplicate
None == "None"

\* a slip of ResponseLogic: the booking test placed before the menu test
ResponseLogicBookingFirst(message) ==
    IF AnyWordIn(message, BookingWords) THEN get_booking_info
    ELSE IF AnyWordIn(message, MenuWords) THEN get_menu
    ELSE IF AnyWordIn(message, ContactWords) THEN get_contact_info
    ELSE IF AnyWordIn(message, HoursWords) THEN get_business_hours
    ELSE IF AnyWordIn(message, GreetingWords) THEN get_welcome_message
    ELSE IF AnyWordIn(message, ThanksWords) THEN ThanksReply
    ELSE IF AnyWordIn(message, FarewellWords) THEN FarewellReply
    ELSE get_default_response

\* the if/elif chain of generate_response on the normalized message
ResponseLogic(message) ==
    IF AnyWordIn(message, MenuWords) THEN get_menu
    ELSE IF AnyWordIn(message, BookingWords) THEN get_booking_info
    ELSE IF AnyWordIn(message, ContactWords) THEN get_contact_info
    ELSE IF AnyWordIn(message, HoursWords) THEN get_business_hours
    ELSE IF AnyWordIn(message, GreetingWords) THEN get_welcome_message
    ELSE IF AnyWordIn(message, ThanksWords) THEN ThanksReply
    ELSE IF AnyWordIn(message, FarewellWords) THEN FarewellReply
    ELSE get_default_response

-----------------------------------------------------------------------------
(* Time *)

\* timedelta.seconds of a difference of d ticks: the difference is
\* normalised to days + seconds + microseconds with 0 <= seconds < 86400,
\* and only the seconds field is read.  Whole days and the fraction of a
\* second are dropped; a negative difference has days < 0 and seconds >= 0.
TdSeconds(d) == (d \div TicksPerSecond) % SecondsPerDay

\* (now - self.last_cleanup).seconds > 300                    (app.py:43)
CleanupDue(now, last) == TdSeconds(now - last) > CleanupInterval

\* (now - last_time).seconds > 300                            (app.py:46)
SessionExpired(now, last_time) == TdSeconds(now - last_time) > SessionMaxAge

\* a slip of IsDuplicate: the window one second short
IsDuplicateShort(current_time, last_time) ==
    TdSeconds(current_time - last_time) < DuplicateWindow - 1

\* time_diff = (current_time - last_time).seconds; time_diff < 2
\*                                                         (app.py:68-69)
IsDuplicate(current_time, last_time) ==
    TdSeconds(current_time - last_time) < DuplicateWindow

-----------------------------------------------------------------------------
(* self.user_sessions: a dict from sender to the time of its last accepted *)
(* message.  It is kept as the array of entries in insertion order; a      *)
(* deleted entry leaves a hole, as in CPython, where a live iterator       *)
(* walks the array and checks the number of live entries.                  *)

Hole == [key |-> <<>>, time |-> 0]

Live(d) == {i \in 1..Len(d) : d[i] # Hole}

\* len(d)
DictLen(d) == Cardinality(Live(d))

\* key in d
HasKey(d, k) == \E i \in Live(d) : d[i].key = k

IndexOf(d, k) == CHOOSE i \in Live(d) : d[i].key = k

\* d[key]
DictGet(d, k) == d[IndexOf(d, k)].time

\* d[key] = v: overwrite in place, or append a new entry
DictSet(d, k, v) ==
    IF HasKey(d, k)
    THEN [d EXCEPT ![IndexOf(d, k)] = [key |-> k, time |-> v]]
    ELSE Append(d, [key |-> k, time |-> v])

\* del d[key]
DictDel(d, k) == [d EXCEPT ![IndexOf(d, k)] = Hole]

-----------------------------------------------------------------------------
(* WhatsAppBot, one request at a time.  st is the bot's state              *)
(* [user_sessions, last_cleanup]; both calls of datetime.now() in one      *)
(* request read the same tick.                                             *)

\* the to_delete list built by the loop at app.py:45-47
ToDelete(d, now) ==
    {d[i].key : i \in {j \in Live(d) : SessionExpired(now, d[j].time)}}

\* the loop at app.py:49-50: del d[key] for every key of to_delete
DeleteAll(d, keys) ==
    [i \in 1..Len(d) |-> IF d[i].key \in keys THEN Hole ELSE d[i]]

cleanup_old_sessions(st, now) ==
    IF CleanupDue(now, st.last_cleanup)
    THEN [user_sessions |-> DeleteAll(st.user_sessions,
                                      ToDelete(st.user_sessions, now)),
          last_cleanup  |-> now]
    ELSE st

\* a slip of generate_response: a suppressed call stamps the entry too
generate_response_StampAlways(message, from_number, st, now) ==
    LET msg == Normalize(message)
        st1 == cleanup_old_sessions(st, now)
        current_time == now
        user_key == from_number
        st2 == [st1 EXCEPT !.user_sessions =
                   DictSet(st1.user_sessions, user_key, current_time)]
    IN  IF /\ HasKey(st1.user_sessions, user_key)
           /\ IsDuplicate(current_time, DictGet(st1.user_sessions, user_key))
        THEN [ret |-> None, st |-> st2]
        ELSE [ret |-> ResponseLogic(msg), st |-> st2]

\* returns [ret, st]: the reply text or None, and the bot's state after
generate_response(message, from_number, st, now) ==
    LET msg == Normalize(message)
        st1 == cleanup_old_sessions(st, now)
        current_time == now
        user_key == from_number
    IN  IF /\ HasKey(st1.user_sessions, user_key)
           /\ IsDuplicate(current_time, DictGet(st1.user_sessions, user_key))
        THEN [ret |-> None, st |-> st1]
        ELSE [ret |-> ResponseLogic(msg),
              st  |-> [st1 EXCEPT !.user_sessions =
                          DictSet(st1.user_sessions, user_key, current_time)]]

-----------------------------------------------------------------------------
(* The webhook adapter *)

\* the scheme marker of the From field; an address is a sequence of
\* tokens, each the marker or a piece of the bare address
Marker == "whatsapp:"

\* str.replace('whatsapp:', ''): every occurrence of the marker is removed
StripMarker(addr) == SelectSeq(addr, LAMBDA tok : tok # Marker)

\* request.form.get(field, '')
FormGet(form, field) == IF field \in DOMAIN form THEN form[field] ELSE <<>>

\* `not response_text`: None or the empty text
Falsy(x) == x = None \/ x = ""

\* str(MessagingResponse()) with the given messages: the TwiML envelope
Twiml(messages) == [kind |-> "twiml", messages |-> messages, text |-> ""]

PlainText(t) == [kind |-> "text", messages |-> <<>>, text |-> t]

Json(t) == [kind |-> "json", messages |-> <<>>, text |-> t]

\* a slip of handle_webhook: only the sender is checked
handle_webhook_SenderOnly(form, endpoint_name, st, now) ==
    LET from_number  == StripMarker(FormGet(form, "From"))
        message_body == FormGet(form, "Body")
    IN  IF from_number = <<>>
        THEN [status |-> 400, body |-> PlainText("Missing data"),
              ret |-> "not called", st |-> st]
        ELSE LET r == generate_response(message_body, from_number, st, now)
             IN  IF Falsy(r.ret)
                 THEN [status |-> 200, body |-> Twiml(<<>>),
                       ret |-> r.ret, st |-> r.st]
                 ELSE [status |-> 200, body |-> Twiml(<<r.ret>>),
                       ret |-> r.ret, st |-> r.st]

\* returns [status, body, ret, st]; ret is what generate_response
\* returned, or "not called"
handle_webhook(form, endpoint_name, st, now) ==
    LET from_number  == StripMarker(FormGet(form, "From"))
        message_body == FormGet(form, "Body")
    IN  IF from_number = <<>> \/ message_body = <<>>
        THEN [status |-> 400, body |-> PlainText("Missing data"),
              ret |-> "not called", st |-> st]
        ELSE LET r == generate_response(message_body, from_number, st, now)
             IN  IF Falsy(r.ret)
                 THEN [status |-> 200, body |-> Twiml(<<>>),
                       ret |-> r.ret, st |-> r.st]
                 ELSE [status |-> 200, body |-> Twiml(<<r.ret>>),
                       ret |-> r.ret, st |-> r.st]

\* a slip of handle_all: the root route without its POST branch
handle_all_StatusOnly(method, form, args, st, now) ==
    [status |-> 200, body |-> Json("status descriptor"),
     ret |-> "not called", st |-> st]

\* route '/'
handle_all(method, form, args, st, now) ==
    IF method = "POST"
    THEN handle_webhook(form, "root", st, now)
    ELSE [status |-> 200, body |-> Json("status descriptor"),
          ret |-> "not called", st |-> st]

\* route '/webhook'
webhook(method, form, args, st, now) ==
    IF method = "POST"
    THEN handle_webhook(form, "webhook", st, now)
    ELSE LET challenge == IF "hub.challenge" \in DOMAIN args
                          THEN args["hub.challenge"] ELSE ""
         IN  [status |-> 200,
              body |-> PlainText(IF challenge # "" THEN challenge
                                 ELSE "WhatsApp Webhook Ready"),
              ret |-> "not called", st |-> st]

-----------------------------------------------------------------------------
(* Requests *)

Plus1 == <<"+", "1">>

Plus2 == <<"+", "2">>

\* the bare addresses that requests come from
Senders == {Plus1, Plus2}

Bodies ==
    { <<"M", "E", "N", "U">>,
      <<" ", "M", "e", "n", "u", "\t">>,
      <<"o", "r", "d", "e", "r", " ", "m", "e", "n", "u">>,
      <<"P", "r", "i", "c", "e", "?">>,
      <<"1">>,
      <<"o", "r", "d", "e", "r">>,
      <<"2", " ", "3">>,
      <<"p", "h", "o", "n", "e">>,
      <<"T", "i", "m", "e">>,
      <<"t", "h", "i", "s">>,
      <<"T", "h", "a", "n", "k", "s">>,
      <<"b", "y", "e">>,
      <<"x", "y", "z">>,
      <<" ">> }

\* form payloads with a sender and a body, in several spellings of the
\* From field
ValidForms ==
    { [From |-> <<Marker>> \o Plus1, Body |-> <<"M", "E", "N", "U">>],
      [From |-> <<Marker>> \o Plus1, Body |-> <<"x", "y", "z">>],
      [From |-> <<Marker>> \o Plus2, Body |-> <<"o", "r", "d", "e", "r">>],
      [From |-> Plus1, Body |-> <<"h", "i">>],
      [From |-> Plus1 \o <<Marker>>, Body |-> <<"h", "i">>] }

\* every body, from one sender
ReplyForms == {[From |-> <<Marker>> \o Plus1, Body |-> b] : b \in Bodies}

\* form payloads with the sender or the body missing or empty
InvalidForms ==
    { [Body |-> <<"h", "i">>],
      [From |-> <<Marker>> \o Plus1],
      [From |-> <<Marker>> \o Plus1, Body |-> <<>>],
      [From |-> <<Marker>>, Body |-> <<"m", "e", "n", "u">>] }

Forms == ValidForms \cup InvalidForms

\* query strings of a GET
QueryArgs == { <<>>, ("hub.challenge" :> "abc123") }

\* how far the clock moves in one step, in ticks: one tick, just under the
\* duplicate window, just under the first second count above the sweep
\* threshold, and one day
Jumps ==
    { 1,
      DuplicateWindow * TicksPerSecond - 1,
      (SessionMaxAge + 1) * TicksPerSecond - 1,
      SecondsPerDay * TicksPerSecond }

-----------------------------------------------------------------------------
(* State *)

VARIABLES
    clock,          \* datetime.now(), in ticks
    advances,       \* how many times the clock has moved
    user_sessions,  \* whatsapp_bot.user_sessions
    last_cleanup,   \* whatsapp_bot.last_cleanup
    last,           \* the request answered in the step just taken
    hist,           \* per sender: its calls of generate_response so far
    threads,        \* the server's worker threads: position and locals
    taken,          \* how many requests the threaded server has taken
    twilio_client,  \* the module's twilio_client: a Client, or None
    outbox,         \* the calls of twilio_client.messages.create so far
    api,            \* the /api/send request answered in the step just taken
    solo            \* a second bot, which takes the calls of one sender only

vars == <<clock, advances, user_sessions, last_cleanup, last, hist,
          threads, taken, twilio_client, outbox, api, solo>>

\* the bot's state, as the operators above take it
Bot == [user_sessions |-> user_sessions, last_cleanup |-> last_cleanup]

\* the worker threads of the development server (app.run serves each
\* request in a thread of its own)
NThreads == 2

Threads == 1..NThreads

\* a thread between requests; the fields after pc are the locals of
\* handle_webhook, generate_response and cleanup_old_sessions
IdleThread ==
    [pc |-> "idle", from_number |-> <<>>, message |-> <<>>,
     now |-> 0, it_pos |-> 0, it_used |-> 0, it_len |-> 0,
     to_delete |-> <<>>, current_time |-> 0,
     status |-> 0, body |-> PlainText(""), ret |-> "not called"]

NoRequest ==
    [path |-> "none", method |-> "none", form |-> <<>>,
     status |-> 0, body |-> PlainText(""), ret |-> "not called"]

NoCalls == [time |-> -1, acc |-> -1, via |-> "none"]

\* no /api/send request yet
NoSend ==
    [json |-> [type |-> "null", fields |-> <<>>], status |-> 0,
     payload |-> [success |-> None, sid |-> None, error |-> None],
     calls |-> <<>>]

\* a bot as WhatsAppBot.__init__ leaves it, that has answered nothing
NewBot == [user_sessions |-> <<>>, last_cleanup |-> 0, ret |-> "not called"]

\* WhatsAppBot.__init__, and no request yet
Started ==
    /\ clock = 0
    /\ advances = 0
    /\ user_sessions = <<>>
    /\ last_cleanup = 0
    /\ last = NoRequest
    /\ hist = [s \in Senders |-> NoCalls]
    /\ threads = [t \in Threads |-> IdleThread]
    /\ taken = 0
    /\ outbox = <<>>
    /\ api = NoSend
    /\ solo = NewBot

\* the module is loaded and Client(...) returned a client; the webhook
\* routes never read twilio_client
Init == Started /\ twilio_client = "Client"

\* the history of a sender after a call at time t through path that
\* returned ret: the time of its newest call, and the time and the path of
\* its newest accepted call (-1 and "none" before there is one)
Record(h, t, path, ret) ==
    [time |-> t,
     acc  |-> IF ret # None THEN t ELSE h.acc,
     via  |-> IF ret # None THEN path ELSE h.via]

\* the state after a request answered with r
Answer(path, method, form, r) ==
    /\ user_sessions' = r.st.user_sessions
    /\ last_cleanup' = r.st.last_cleanup
    /\ last' = [path |-> path, method |-> method, form |-> form,
                status |-> r.status, body |-> r.body, ret |-> r.ret]
    /\ hist' = IF r.ret = "not called" THEN hist
               ELSE LET s == StripMarker(FormGet(form, "From"))
                    IN  [hist EXCEPT ![s] = Record(hist[s], clock, path, r.ret)]
    /\ UNCHANGED <<twilio_client, outbox, api, solo,
                   clock, advances, threads, taken>>

\* time passes; last describes the step just taken, so it is cleared
Tick(d) ==
    /\ advances < MaxAdvances
    /\ clock' = clock + d
    /\ advances' = advances + 1
    /\ last' = NoRequest
    /\ UNCHANGED <<twilio_client, outbox, api, solo,
                   user_sessions, last_cleanup, hist, threads, taken>>

PostRoot(form) ==
    Answer("/", "POST", form, handle_all("POST", form, <<>>, Bot, clock))

PostWebhook(form) ==
    Answer("/webhook", "POST", form, webhook("POST", form, <<>>, Bot, clock))

GetRoot ==
    Answer("/", "GET", <<>>, handle_all("GET", <<>>, <<>>, Bot, clock))

GetWebhook(args) ==
    Answer("/webhook", "GET", <<>>, webhook("GET", <<>>, args, Bot, clock))

Next ==
    \/ \E d \in Jumps : Tick(d)
    \/ \E form \in Forms : PostRoot(form)
    \/ \E form \in Forms : PostWebhook(form)
    \/ GetRoot
    \/ \E args \in QueryArgs : GetWebhook(args)

Spec == Init /\ [][Next]_vars

\* the same server, taking every body of Bodies from one sender, with the
\* clock moving in steps around the duplicate window only
ReplyJumps == {1, DuplicateWindow * TicksPerSecond - 1}

NextReply ==
    \/ \E d \in ReplyJumps : Tick(d)
    \/ \E form \in ReplyForms : PostRoot(form)
    \/ \E form \in ReplyForms : PostWebhook(form)

SpecReply == Init /\ [][NextReply]_vars

-----------------------------------------------------------------------------
(* The threaded server.  app.run() serves every request in its own thread, *)
(* and the bot takes no lock: a request is a sequence of steps, each with  *)
(* at most one access to the dict, and the steps of different threads      *)
(* interleave.                                                             *)

\* form payloads the threaded server takes
ConcForms ==
    { [From |-> <<Marker>> \o Plus1, Body |-> <<"M", "E", "N", "U">>],
      [From |-> <<Marker>> \o Plus2, Body |-> <<"o", "r", "d", "e", "r">>],
      [From |-> <<Marker>> \o Plus1] }

\* clock steps of the threaded server: one tick, and the first second
\* count above the sweep threshold
ConcJumps == {1, (CleanupInterval + 1) * TicksPerSecond}

\* an exception leaves the view function: Flask answers 500
Raise(t, what) ==
    threads' = [threads EXCEPT ![t].pc = "done", ![t].status = 500,
                   ![t].body = PlainText("Internal Server Error"),
                   ![t].ret = what]

\* handle_webhook to the call of generate_response           (app.py:197-215)
Accept(t, form) ==
    /\ threads[t].pc = "idle"
    /\ taken < MaxRequests
    /\ taken' = taken + 1
    /\ LET from_number  == StripMarker(FormGet(form, "From"))
           message_body == FormGet(form, "Body")
       IN  IF from_number = <<>> \/ message_body = <<>>
           THEN threads' = [threads EXCEPT ![t] =
                    [IdleThread EXCEPT !.pc = "done", !.status = 400,
                        !.body = PlainText("Missing data")]]
           ELSE threads' = [threads EXCEPT ![t] =
                    [IdleThread EXCEPT !.pc = "cleanup",
                        !.from_number = from_number,
                        !.message = Normalize(message_body)]]
    /\ UNCHANGED <<twilio_client, outbox, api, solo,
                   clock, advances, user_sessions, last_cleanup, last, hist>>

\* route '/' in a thread
AcceptRoot(t, form) == Accept(t, form)

\* route '/webhook' in a thread
AcceptWebhook(t, form) == Accept(t, form)

\* now = datetime.now(); the test of the interval; the for statement
\* takes an iterator of user_sessions.items()               (app.py:42-45)
StartCleanup(t) ==
    /\ threads[t].pc = "cleanup"
    /\ IF CleanupDue(clock, last_cleanup)
       THEN threads' = [threads EXCEPT ![t].pc = "iter", ![t].now = clock,
                           ![t].to_delete = <<>>, ![t].it_pos = 0,
                           ![t].it_used = DictLen(user_sessions),
                           ![t].it_len = DictLen(user_sessions)]
       ELSE threads' = [threads EXCEPT ![t].pc = "check", ![t].now = clock]
    /\ UNCHANGED <<twilio_client, outbox, api, solo,
                   clock, advances, user_sessions, last_cleanup, last, hist,
                   taken>>

\* one round of the for loop: the iterator's next(), then the loop body.
\* next() raises RuntimeError if the dict's size is no longer the size it
\* had when the iterator was made, or if it finds an entry after it has
\* handed out as many as the dict had.                       (app.py:45-47)
IterNext(t) ==
    /\ threads[t].pc = "iter"
    /\ LET th   == threads[t]
           rest == {i \in Live(user_sessions) : i > th.it_pos}
       IN  IF th.it_used # DictLen(user_sessions)
           THEN Raise(t, "RuntimeError")
           ELSE IF rest = {}
           THEN threads' = [threads EXCEPT ![t].pc = "del"]
           ELSE IF th.it_len = 0
           THEN Raise(t, "RuntimeError")
           ELSE LET i == CHOOSE x \in rest : \A y \in rest : x <= y
                    e == user_sessions[i]
                IN  threads' = [threads EXCEPT
                        ![t].it_pos = i,
                        ![t].it_len = th.it_len - 1,
                        ![t].to_delete =
                            IF SessionExpired(th.now, e.time)
                            THEN Append(th.to_delete, e.key)
                            ELSE th.to_delete]
    /\ UNCHANGED <<twilio_client, outbox, api, solo,
                   clock, advances, user_sessions, last_cleanup, last, hist,
                   taken>>

\* one round of `for key in to_delete: del self.user_sessions[key]`;
\* del raises KeyError if the key is gone                    (app.py:49-50)
DeleteNext(t) ==
    /\ threads[t].pc = "del"
    /\ LET th == threads[t]
       IN  IF th.to_delete = <<>>
           THEN /\ threads' = [threads EXCEPT ![t].pc = "set_cleanup"]
                /\ UNCHANGED user_sessions
           ELSE IF ~HasKey(user_sessions, Head(th.to_delete))
           THEN /\ Raise(t, "KeyError")
                /\ UNCHANGED user_sessions
           ELSE /\ user_sessions' = DictDel(user_sessions, Head(th.to_delete))
                /\ threads' = [threads EXCEPT
                                  ![t].to_delete = Tail(th.to_delete)]
    /\ UNCHANGED <<twilio_client, outbox, api, solo,
                   clock, advances, last_cleanup, last, hist, taken>>

\* self.last_cleanup = now                                      (app.py:52)
SetCleanup(t) ==
    /\ threads[t].pc = "set_cleanup"
    /\ last_cleanup' = threads[t].now
    /\ threads' = [threads EXCEPT ![t].pc = "check"]
    /\ UNCHANGED <<twilio_client, outbox, api, solo,
                   clock, advances, user_sessions, last, hist, taken>>

\* current_time = datetime.now(); user_key in self.user_sessions
\*                                                          (app.py:63-66)
CheckKey(t) ==
    /\ threads[t].pc = "check"
    /\ threads' = [threads EXCEPT
                      ![t].current_time = clock,
                      ![t].pc = IF HasKey(user_sessions, threads[t].from_number)
                                THEN "read" ELSE "update"]
    /\ UNCHANGED <<twilio_client, outbox, api, solo,
                   clock, advances, user_sessions, last_cleanup, last, hist,
                   taken>>

\* last_time = self.user_sessions[user_key], which raises KeyError if the
\* key is gone; the test of the window; return None, which handle_webhook
\* answers with the empty envelope              (app.py:67-71, 217-221)
ReadLast(t) ==
    /\ threads[t].pc = "read"
    /\ LET th == threads[t]
       IN  IF ~HasKey(user_sessions, th.from_number)
           THEN Raise(t, "KeyError")
           ELSE IF IsDuplicate(th.current_time,
                               DictGet(user_sessions, th.from_number))
           THEN threads' = [threads EXCEPT ![t].pc = "done",
                               ![t].status = 200, ![t].ret = None,
                               ![t].body = Twiml(<<>>)]
           ELSE threads' = [threads EXCEPT ![t].pc = "update"]
    /\ UNCHANGED <<twilio_client, outbox, api, solo,
                   clock, advances, user_sessions, last_cleanup, last, hist,
                   taken>>

\* self.user_sessions[user_key] = current_time; the reply; the envelope
\*                                              (app.py:74-92, 217-232)
Update(t) ==
    /\ threads[t].pc = "update"
    /\ LET th == threads[t]
           response_text == ResponseLogic(th.message)
       IN  /\ user_sessions' =
                  DictSet(user_sessions, th.from_number, th.current_time)
           /\ threads' = [threads EXCEPT ![t].pc = "done",
                             ![t].status = 200, ![t].ret = response_text,
                             ![t].body = IF Falsy(response_text)
                                         THEN Twiml(<<>>)
                                         ELSE Twiml(<<response_text>>)]
    /\ UNCHANGED <<twilio_client, outbox, api, solo,
                   clock, advances, last_cleanup, last, hist, taken>>

\* the answer is sent and the thread is free again
Respond(t) ==
    /\ threads[t].pc = "done"
    /\ threads' = [threads EXCEPT ![t] = IdleThread]
    /\ UNCHANGED <<twilio_client, outbox, api, solo,
                   clock, advances, user_sessions, last_cleanup, last, hist,
                   taken>>

NextConc ==
    \/ \E d \in ConcJumps : Tick(d)
    \/ \E t \in Threads, form \in ConcForms : AcceptRoot(t, form)
    \/ \E t \in Threads, form \in ConcForms : AcceptWebhook(t, form)
    \/ \E t \in Threads : StartCleanup(t)
    \/ \E t \in Threads : IterNext(t)
    \/ \E t \in Threads : DeleteNext(t)
    \/ \E t \in Threads : SetCleanup(t)
    \/ \E t \in Threads : CheckKey(t)
    \/ \E t \in Threads : ReadLast(t)
    \/ \E t \in Threads : Update(t)
    \/ \E t \in Threads : Respond(t)

SpecConc == Init /\ [][NextConc]_vars

-----------------------------------------------------------------------------
(* The send endpoint, route '/api/send' (app.py:234-252).  request.json is *)
(* a JSON value: [type, fields], where fields maps the keys of an object   *)
(* to their values and holds the items of an array.                        *)

\* how many calls of messages.create one behaviour makes
MaxCreates == 2

\* os.getenv('TWILIO_WHATSAPP_NUMBER')                          (app.py:20)
TWILIO_WHATSAPP_NUMBER == "TWILIO_WHATSAPP_NUMBER"

\* what twilio_client is after app.py:27-32: a client, or None when
\* Client(...) raised
TwilioClients == {"Client", None}

JsonNull == [type |-> "null", fields |-> <<>>]

JsonObject(fields) == [type |-> "object", fields |-> fields]

JsonArray(items) == [type |-> "array", fields |-> items]

\* `request.json or {}`: null, the empty object and the empty array are
\* falsy and give the empty dict
JsonOrEmpty(json) ==
    IF json.type = "null" \/ DOMAIN json.fields = {}
    THEN JsonObject(<<>>)
    ELSE json

\* data.get(key): the value, or None
DataGet(data, key) ==
    IF key \in DOMAIN data.fields THEN data.fields[key] ELSE None

\* the body of jsonify(...) for the three payloads of send_message; a key
\* the payload does not have is None, and True is rendered "true"
Payload(success, sid, error) ==
    [success |-> success, sid |-> sid, error |-> error]

\* one evaluation of twilio_client.messages.create(body=, from_=, to=),
\* with what came of it
Create(message, phone, result) ==
    [body |-> message, from_ |-> TWILIO_WHATSAPP_NUMBER,
     to |-> <<Marker, phone>>, result |-> result]

\* what messages.create does is the provider's choice: it returns a
\* message object with a sid, or raises with a description
Outcomes ==
    { [ok |-> TRUE,  sid |-> "SM1",  error |-> None],
      [ok |-> TRUE,  sid |-> "SM2",  error |-> None],
      [ok |-> FALSE, sid |-> None,   error |-> "authentication failed"],
      [ok |-> FALSE, sid |-> None,   error |-> "invalid recipient"] }

\* evaluating twilio_client.messages on None raises AttributeError inside
\* the try block
NoneHasNoMessages ==
    [ok |-> FALSE, sid |-> None,
     error |-> "'NoneType' object has no attribute 'messages'"]

\* a slip of send_message: a failed call is tried a second time
send_message_Retry(json, client, outcome) ==
    LET data    == JsonOrEmpty(json)
        phone   == DataGet(data, "phone")
        message == DataGet(data, "message")
        result  == IF client = None THEN NoneHasNoMessages ELSE outcome
        call    == Create(message, phone, result)
    IN  IF data.type # "object"
        THEN [status |-> 500, payload |-> Payload(None, None, None),
              calls |-> <<>>]
        ELSE IF Falsy(phone) \/ Falsy(message)
        THEN [status |-> 400,
              payload |-> Payload(None, None, "Phone and message required"),
              calls |-> <<>>]
        ELSE IF result.ok
        THEN [status |-> 200, payload |-> Payload("true", result.sid, None),
              calls |-> <<call>>]
        ELSE [status |-> 500, payload |-> Payload(None, None, result.error),
              calls |-> <<call, call>>]

\* returns [status, payload, calls]: calls are the evaluations of
\* twilio_client.messages.create this request made.  data.get on a JSON
\* value that is not an object raises AttributeError outside the try
\* block, which Flask answers with 500 and its own error page.
send_message(json, client, outcome) ==
    LET data    == JsonOrEmpty(json)
        phone   == DataGet(data, "phone")
        message == DataGet(data, "message")
        result  == IF client = None THEN NoneHasNoMessages ELSE outcome
        call    == Create(message, phone, result)
    IN  IF data.type # "object"
        THEN [status |-> 500, payload |-> Payload(None, None, None),
              calls |-> <<>>]
        ELSE IF Falsy(phone) \/ Falsy(message)
        THEN [status |-> 400,
              payload |-> Payload(None, None, "Phone and message required"),
              calls |-> <<>>]
        ELSE IF result.ok
        THEN [status |-> 200, payload |-> Payload("true", result.sid, None),
              calls |-> <<call>>]
        ELSE [status |-> 500, payload |-> Payload(None, None, result.error),
              calls |-> <<call>>]

\* JSON bodies of a POST to /api/send
SendBodies ==
    { JsonObject("phone" :> "+1555" @@ "message" :> "hi"),
      JsonObject("phone" :> "+1666" @@ "message" :> "hello"),
      JsonObject("phone" :> "+1555"),
      JsonObject("message" :> "hi"),
      JsonObject("phone" :> "" @@ "message" :> "hi"),
      JsonObject("phone" :> "+1555" @@ "message" :> ""),
      JsonObject("phone" :> None @@ "message" :> "hi"),
      JsonObject(<<>>),
      JsonNull,
      JsonArray(<<>>),
      JsonArray(<<"+1555", "hi">>) }

\* the module is loaded; Client(...) returned a client or raised
InitSend == Started /\ twilio_client \in TwilioClients

\* POST /api/send
SendMessage(json, outcome) ==
    /\ Len(outbox) < MaxCreates
    /\ LET r == send_message(json, twilio_client, outcome)
       IN  /\ outbox' = outbox \o r.calls
           /\ api' = [json |-> json, status |-> r.status,
                      payload |-> r.payload, calls |-> r.calls]
    /\ UNCHANGED <<clock, advances, user_sessions, last_cleanup, last, hist,
                   threads, taken, twilio_client, solo>>

NextSend == \E json \in SendBodies, outcome \in Outcomes :
                SendMessage(json, outcome)

SpecSend == InitSend /\ [][NextSend]_vars

-----------------------------------------------------------------------------
(* Two runs side by side.  The bot takes the calls of every sender; solo   *)
(* is a second bot, constructed at the same time, that takes the calls of  *)
(* the observed sender only, each at the same time and with the same       *)
(* message as the bot takes it.                                            *)

\* the sender whose outcomes are compared
Observed == Plus1

ObservedForms ==
    { [From |-> <<Marker>> \o Observed, Body |-> <<"M", "E", "N", "U">>],
      [From |-> <<Marker>> \o Observed, Body |-> <<"x", "y", "z">>] }

OtherForms ==
    { [From |-> <<Marker>> \o Plus2, Body |-> <<"o", "r", "d", "e", "r">>],
      [From |-> <<Marker>> \o Plus2, Body |-> <<"h", "i">>] }

\* clock steps: one tick, the first second count above the sweep
\* threshold, and what is left of a day after it
PairJumps ==
    { 1,
      (CleanupInterval + 1) * TicksPerSecond,
      (SecondsPerDay - CleanupInterval - 1) * TicksPerSecond }

\* a POST to '/webhook' of the observed sender, answered by both bots
ObservedCall(form) ==
    /\ LET r == webhook("POST", form, <<>>, Bot, clock)
           q == webhook("POST", form, <<>>,
                        [user_sessions |-> solo.user_sessions,
                         last_cleanup  |-> solo.last_cleanup], clock)
       IN  /\ user_sessions' = r.st.user_sessions
           /\ last_cleanup' = r.st.last_cleanup
           /\ last' = [path |-> "/webhook", method |-> "POST", form |-> form,
                       status |-> r.status, body |-> r.body, ret |-> r.ret]
           /\ hist' = [hist EXCEPT ![Observed] =
                          Record(hist[Observed], clock, "/webhook", r.ret)]
           /\ solo' = [user_sessions |-> q.st.user_sessions,
                       last_cleanup  |-> q.st.last_cleanup,
                       ret           |-> q.ret]
    /\ UNCHANGED <<clock, advances, threads, taken, twilio_client, outbox,
                   api>>

\* a POST to '/webhook' of another sender, answered by the bot only
OtherCall(form) == PostWebhook(form)

NextPair ==
    \/ \E d \in PairJumps : Tick(d)
    \/ \E form \in ObservedForms : ObservedCall(form)
    \/ \E form \in OtherForms : OtherCall(form)

SpecPair == Init /\ [][NextPair]_vars

-----------------------------------------------------------------------------
(* Claims.  Spec answers requests one at a time; a call of respond is a    *)
(* step that leaves in last' a request for which generate_response ran.    *)

\* the sender of a form payload
SenderOf(form) == StripMarker(FormGet(form, "From"))

\* this step is a call of generate_response for sender s
Called(s) == last'.ret # "not called" /\ SenderOf(last'.form) = s

\* the duplicate window and the idle threshold, in ticks
WindowTicks == DuplicateWindow * TicksPerSecond

MaxAgeTicks == SessionMaxAge * TicksPerSecond

C2_FarApartBothReply ==
    [][\A s \in Senders :
          Called(s) =>
             /\ hist[s].time < 0 => last'.ret # None
             /\ (hist[s].time >= 0 /\ clock - hist[s].time > WindowTicks)
                   => last'.ret # None]_vars

\* C5: when a sweep runs (last_cleanup is reset), every entry more than
\* 300 seconds old is removed and every other entry stays with its
\* timestamp; the caller's own entry may have been set to now afterwards.
C5_SweepRemovesExactlyOld ==
    [][last_cleanup' # last_cleanup =>
          \A i \in Live(user_sessions) :
             LET e == user_sessions[i]
                 reset == /\ e.key = SenderOf(last'.form)
                          /\ HasKey(user_sessions', e.key)
                          /\ DictGet(user_sessions', e.key) = clock
             IN  IF clock - e.time > MaxAgeTicks
                 THEN ~HasKey(user_sessions', e.key) \/ reset
                 ELSE \/ reset
                      \/ /\ HasKey(user_sessions', e.key)
                         /\ DictGet(user_sessions', e.key) = e.time]_vars

\* a thread has answered a request that had a sender and a body
Answered(t) == threads[t].pc = "done" /\ threads[t].from_number # <<>>

\* the request of thread t was treated as new: it passed the duplicate
\* check, updated the session entry and got a reply
TreatedAsNew(t) ==
    Answered(t) /\ threads[t].status = 200 /\ threads[t].ret # None

\* C3: under any interleaving, two messages of one sender that arrive less
\* than 2 seconds apart are never both treated as new.
C3_NotBothNew ==
    \A t1, t2 \in Threads :
        (/\ t1 # t2
         /\ Answered(t1) /\ Answered(t2)
         /\ threads[t1].from_number = threads[t2].from_number
         /\ threads[t1].current_time - threads[t2].current_time < WindowTicks
         /\ threads[t2].current_time - threads[t1].current_time < WindowTicks)
        => ~(TreatedAsNew(t1) /\ TreatedAsNew(t2))

\* C4: under any interleaving, every call of respond returns a reply or
\* Suppressed, never an error.
C4_NeverRaises ==
    \A t \in Threads :
        Answered(t) => threads[t].ret \notin {"RuntimeError", "KeyError"}

\* the trigger sets and replies, in the order the claims give them
Categories ==
    << [reply |-> get_menu,
        triggers |-> { <<"m", "e", "n", "u">>, <<"1">>,
                       <<"r", "a", "t", "e">>, <<"p", "r", "i", "c", "e">>,
                       <<"c", "h", "a", "r", "g", "e", "s">>,
                       <<"k", "h", "a", "n", "a">> }],
       [reply |-> get_booking_info,
        triggers |-> { <<"b", "o", "o", "k", "i", "n", "g">>,
                       <<"a", "p", "p", "o", "i", "n", "t", "m", "e", "n", "t">>,
                       <<"2">>, <<"o", "r", "d", "e", "r">>,
                       <<"d", "e", "l", "i", "v", "e", "r", "y">> }],
       [reply |-> get_contact_info,
        triggers |-> { <<"c", "o", "n", "t", "a", "c", "t">>, <<"3">>,
                       <<"n", "u", "m", "b", "e", "r">>,
                       <<"p", "h", "o", "n", "e">>,
                       <<"a", "d", "d", "r", "e", "s", "s">> }],
       [reply |-> get_business_hours,
        triggers |-> { <<"t", "i", "m", "e">>, <<"h", "o", "u", "r">>,
                       <<"4">>, <<"o", "p", "e", "n">>,
                       <<"c", "l", "o", "s", "e">>, <<"b", "a", "j", "e">> }],
       [reply |-> get_welcome_message,
        triggers |-> { <<"h", "e", "l", "l", "o">>, <<"h", "i">>,
                       <<"h", "e", "y">>, <<"s", "a", "l", "a", "m">>,
                       <<"a", "s", "s", "a", "l", "a", "m">> }],
       [reply |-> ThanksReply,
        triggers |-> { <<"t", "h", "a", "n", "k", "s">>,
                       <<"t", "h", "a", "n", "k">>,
                       <<"s", "h", "u", "k", "r", "i", "y", "a">> }],
       [reply |-> FarewellReply,
        triggers |-> { <<"b", "y", "e">>,
                       <<"g", "o", "o", "d", "b", "y", "e">>,
                       <<"a", "l", "l", "a", "h", " ", "h", "a", "f", "i", "z">> }] >>

\* category k has a trigger that occurs in text
Triggered(k, text) == \E w \in Categories[k].triggers : Contains(text, w)

\* the reply of the first triggered category, or the default text
FirstMatch(text) ==
    LET hits == {k \in 1..Len(Categories) : Triggered(k, text)}
    IN  IF hits = {} THEN get_default_response
        ELSE Categories[CHOOSE k \in hits : \A j \in hits : k <= j].reply

\* the request in last was a call of respond that was not suppressed
Replied == last.ret # "not called" /\ last.ret # None

\* C6: a call of respond that is not suppressed returns the reply of the
\* first category, in the order menu, booking, contact, hours, greeting,
\* thanks, farewell, that has a trigger occurring in the normalized
\* message, and the default text if none has.
C6_FirstCategoryWins ==
    Replied => last.ret = FirstMatch(Normalize(FormGet(last.form, "Body")))

\* a message with a booking trigger before a menu trigger got the menu text
C6_Witness ==
    /\ last.ret = get_menu
    /\ FormGet(last.form, "Body")
          = <<"o", "r", "d", "e", "r", " ", "m", "e", "n", "u">>

\* the message holds a menu keyword, in any letter case
HasMenuKeyword(message) == Triggered(1, Lower(message))

\* C7, as claimed: a call of respond whose message holds a menu keyword
\* returns the menu text, in every state of the session store.
C7_MenuAlways ==
    (last.ret # "not called" /\ HasMenuKeyword(FormGet(last.form, "Body")))
    => last.ret = get_menu

\* C7, amended: a call of respond whose message holds a menu keyword, in
\* any letter case and with any surrounding whitespace, returns the menu
\* text unless it is suppressed as a duplicate.
C7_MenuUnlessSuppressed ==
    (Replied /\ HasMenuKeyword(FormGet(last.form, "Body")))
    => last.ret = get_menu

\* a menu keyword in mixed case between whitespace got the menu text
C7_Witness ==
    /\ last.ret = get_menu
    /\ FormGet(last.form, "Body") = <<" ", "M", "e", "n", "u", "\t">>

\* the sender or the body of a form payload is missing or empty
MissingData(form) ==
    \/ "From" \notin DOMAIN form
    \/ "Body" \notin DOMAIN form
    \/ SenderOf(form) = <<>>
    \/ form["Body"] = <<>>

\* C8: a POST whose sender or body is missing or empty is answered with
\* 400, respond is not called, and the session map and the time of the
\* last sweep are what they were.
C8_MissingData400 ==
    [][(last'.method = "POST" /\ MissingData(last'.form)) =>
          /\ last'.status = 400
          /\ last'.body.kind = "text"
          /\ last'.ret = "not called"
          /\ user_sessions' = user_sessions
          /\ last_cleanup' = last_cleanup]_vars

\* a request without a body was answered with 400 while the session map
\* held entries
C8_Witness ==
    /\ last.method = "POST" /\ MissingData(last.form)
    /\ last.status = 400
    /\ user_sessions # <<>>

\* C9: every POST with a sender and a body is answered with 200 and an
\* envelope that holds no message exactly when respond returned
\* Suppressed, and otherwise exactly the reply respond returned.
C9_Always200 ==
    \A t \in Threads :
        Answered(t) =>
            /\ threads[t].status = 200
            /\ threads[t].body.kind = "twiml"
            /\ threads[t].body.messages =
                  IF threads[t].ret = None THEN <<>> ELSE <<threads[t].ret>>

\* C10: in every state and for every form payload, a POST to '/' and a
\* POST to '/webhook' give the same status, envelope and session-store
\* update; and a POST of a sender whose message was accepted through the
\* other path less than 2 seconds before is suppressed.
C10_RootLikeWebhook ==
    /\ \A form \in Forms :
          handle_all("POST", form, <<>>, Bot, clock)
             = webhook("POST", form, <<>>, Bot, clock)
    /\ \A form \in ValidForms :
          LET h == hist[SenderOf(form)]
          IN  (h.acc >= 0 /\ clock - h.acc < WindowTicks) =>
                 /\ h.via = "/webhook" =>
                       handle_all("POST", form, <<>>, Bot, clock).ret = None
                 /\ h.via = "/" =>
                       webhook("POST", form, <<>>, Bot, clock).ret = None

\* a POST to '/' was suppressed as the duplicate of a message accepted
\* through '/webhook' some time before
C10_Witness ==
    /\ last.path = "/" /\ last.method = "POST" /\ last.ret = None
    /\ LET h == hist[SenderOf(last.form)]
       IN  h.via = "/webhook" /\ h.acc >= 0 /\ h.acc < clock

\* the JSON body is an object with a non-empty phone and a non-empty message
BothPresent(json) ==
    /\ json.type = "object"
    /\ "phone" \in DOMAIN json.fields /\ ~Falsy(json.fields["phone"])
    /\ "message" \in DOMAIN json.fields /\ ~Falsy(json.fields["message"])

\* C11: a request to /api/send with recipient and body present makes
\* exactly one call of the messaging client; if the call fails, the client
\* being None included, the answer is 500 with the failure's description
\* in the error payload; if it succeeds, the answer is 200 with success and
\* the sid the provider assigned.
C11_OneCallNoRetry ==
    [][BothPresent(api'.json) =>
          /\ Len(api'.calls) = 1
          /\ outbox' = Append(outbox, api'.calls[1])
          /\ LET call == api'.calls[1]
             IN  /\ call.body = api'.json.fields["message"]
                 /\ call.to = <<Marker, api'.json.fields["phone"]>>
                 /\ twilio_client = None => ~call.result.ok
                 /\ IF call.result.ok
                    THEN /\ api'.status = 200
                         /\ api'.payload.success = "true"
                         /\ api'.payload.sid = call.result.sid
                         /\ api'.payload.sid # None
                    ELSE /\ api'.status = 500
                         /\ api'.payload.error = call.result.error
                         /\ api'.payload.error # None]_vars

\* a second request failed at a client that is there, and the outbox holds
\* one call for each of the two requests
C11_Witness ==
    /\ twilio_client = "Client"
    /\ BothPresent(api.json)
    /\ api.status = 500
    /\ Len(api.calls) = 1
    /\ Len(outbox) = 2

\* C12: a request to /api/send whose recipient or body is missing or empty
\* is answered with 400 and an error payload, and makes no call of the
\* messaging client.
C12_Missing400 ==
    [][~BothPresent(api'.json) =>
          /\ api'.status = 400
          /\ api'.payload.error # None
          /\ api'.calls = <<>>
          /\ outbox' = outbox]_vars

\* C13: a call of respond returns Suppressed exactly when, after the sweep
\* step, the map holds an entry of the sender and less than 2 seconds have
\* in fact passed since the entry's timestamp; for every larger distance,
\* and when there is no entry, the call returns a reply.
C13_SuppressedIffWithinWindow ==
    [][\A s \in Senders :
          Called(s) =>
             LET swept == cleanup_old_sessions(Bot, clock).user_sessions
             IN  last'.ret = None
                    <=> /\ HasKey(swept, s)
                        /\ clock - DictGet(swept, s) < WindowTicks]_vars

\* C14: the entry of a sender holds the time of the sender's last accepted
\* call: a suppressed call leaves the sender's entry and its timestamp as
\* they were, and an accepted call sets the entry to the current time,
\* whichever reply it gets (requests answered one at a time).
C14_EntryIsLastAccepted ==
    [][\A s \in Senders :
          /\ HasKey(user_sessions', s) =>
                DictGet(user_sessions', s) = hist'[s].acc
          /\ Called(s) =>
                IF last'.ret = None
                THEN /\ HasKey(user_sessions, s)
                     /\ HasKey(user_sessions', s)
                     /\ DictGet(user_sessions', s) = DictGet(user_sessions, s)
                ELSE /\ HasKey(user_sessions', s)
                     /\ DictGet(user_sessions', s) = clock]_vars

\* a call was suppressed, and the sender's entry still holds the earlier
\* time of the sender's accepted call
C14_Witness ==
    /\ last.ret = None
    /\ LET s == SenderOf(last.form)
       IN  /\ HasKey(user_sessions, s)
           /\ DictGet(user_sessions, s) = hist[s].acc
           /\ DictGet(user_sessions, s) < clock

\* the sweep interval, in ticks
IntervalTicks == CleanupInterval * TicksPerSecond

\* C15: the sweep of a call of respond runs exactly when more than 300
\* seconds have in fact passed since the last sweep, whatever the distance,
\* and then sets last_cleanup to now; otherwise no entry is deleted and
\* last_cleanup stays.
C15_SweepExactlyWhenDue ==
    [][\A s \in Senders :
          Called(s) =>
             IF clock - last_cleanup > IntervalTicks
             THEN last_cleanup' = clock
             ELSE /\ last_cleanup' = last_cleanup
                  /\ \A i \in Live(user_sessions) :
                        HasKey(user_sessions', user_sessions[i].key)]_vars

\* C16: after every completed call of respond, every entry of the session
\* map is at most 600 seconds old (one sweep interval and the idle
\* threshold).
C16_StalenessBound ==
    last.ret # "not called" =>
       \A i \in Live(user_sessions) :
          clock - user_sessions[i].time <= IntervalTicks + MaxAgeTicks

\* C17: a sender is not suppressed for ever: every call that arrives 2
\* seconds or more after the sender's last accepted call is accepted.
C17_AcceptedAfterWindow ==
    [][\A s \in Senders :
          (Called(s) /\ hist[s].acc >= 0
                     /\ clock - hist[s].acc >= WindowTicks)
          => last'.ret # None]_vars

\* C18: what a call of respond returns for a sender depends on the message
\* and on the sender's own earlier calls and their times only: the bot,
\* which other senders call too, and the bot that only this sender calls
\* return the same for every call of the sender.
C18_SenderIndependence ==
    (last.ret # "not called" /\ SenderOf(last.form) = Observed)
    => last.ret = solo.ret


=============================================================================
